---- MODULE Spec2Model ----
(***************************************************************************)
(* Financial policy chatbot: document indexing, conversation memory,       *)
(* question enhancement, topic classification and response synthesis       *)
(* (chatbot_fixed.py), and the per-session construction of the chatbot by  *)
(* the Streamlit front end (streamlit_app_professional.py).                *)
(*                                                                         *)
(* Text is modelled as a sequence of one-character strings, so that        *)
(* Python's substring test, str.lower() and f-string concatenation are     *)
(* computed character by character.                                        *)
(***************************************************************************)
EXTENDS Integers, Sequences, FiniteSets, TLC

\* ------------------------------------------------------------------ bounds
\* Questions are built from at most MaxFrags fragments joined by a space.
MaxFrags == 2

\* A document has at most MaxChunks chunks.
MaxChunks == 2

\* Concurrent sessions (browser sessions, command-line runs) sharing ./chroma_db.
NumSessions == 2

\* ask() calls per run.
MaxAsks == 2

\* Distances the store reports lie in 0..DistanceRange-1.
DistanceRange == 3

\* Capacities 0..MaxCapacity (and the default) are tried for a memory on its own.
MaxCapacity == 3

\* A memory on its own records at most capacity + RecordSlack interactions between clears.
RecordSlack == 2

\* Largest n_results a caller of search passes.
MaxResults == 3

\* -------------------------------------------------------- program constants
\* ConversationMemory(max_history=10)
DefaultMaxHistory == 10

\* vector_db.search(enhanced_question, n_results=3)
SearchResults == 3

\* ------------------------------------------------------------- text helpers
UpperToLower ==
    ("A" :> "a") @@ ("B" :> "b") @@ ("C" :> "c") @@ ("D" :> "d") @@ ("E" :> "e") @@ ("F" :> "f") @@ ("G" :> "g") @@ ("H" :> "h") @@ ("I" :> "i") @@ ("J" :> "j") @@ ("K" :> "k") @@ ("L" :> "l") @@ ("M" :> "m")
    @@ ("N" :> "n") @@ ("O" :> "o") @@ ("P" :> "p") @@ ("Q" :> "q") @@ ("R" :> "r") @@ ("S" :> "s") @@ ("T" :> "t") @@ ("U" :> "u") @@ ("V" :> "v") @@ ("W" :> "w") @@ ("X" :> "x") @@ ("Y" :> "y") @@ ("Z" :> "z")


\* str.lower() on the letters A-Z; every other character is kept.
lower(s) ==
    [i \in 1..Len(s) |-> IF s[i] \in DOMAIN UpperToLower THEN UpperToLower[s[i]] ELSE s[i]]

LowerToUpper ==
    ("a" :> "A") @@ ("b" :> "B") @@ ("c" :> "C") @@ ("d" :> "D") @@ ("e" :> "E") @@ ("f" :> "F") @@ ("g" :> "G") @@ ("h" :> "H") @@ ("i" :> "I") @@ ("j" :> "J") @@ ("k" :> "K") @@ ("l" :> "L") @@ ("m" :> "M")
    @@ ("n" :> "N") @@ ("o" :> "O") @@ ("p" :> "P") @@ ("q" :> "Q") @@ ("r" :> "R") @@ ("s" :> "S") @@ ("t" :> "T") @@ ("u" :> "U") @@ ("v" :> "V") @@ ("w" :> "W") @@ ("x" :> "X") @@ ("y" :> "Y") @@ ("z" :> "Z")

\* str.title() on the letters a-z and A-Z: a letter that follows no letter is
\* upper-cased, every other letter is lower-cased.
title(s) ==
    [i \in 1..Len(s) |->
        IF i = 1 \/ s[i - 1] \notin (DOMAIN UpperToLower \cup DOMAIN LowerToUpper)
        THEN (IF s[i] \in DOMAIN LowerToUpper THEN LowerToUpper[s[i]] ELSE s[i])
        ELSE (IF s[i] \in DOMAIN UpperToLower THEN UpperToLower[s[i]] ELSE s[i])]

\* Python's `p in s` for strings.
Contains(p, s) ==
    \E i \in 1..(Len(s) - Len(p) + 1) : \A j \in 1..Len(p) : s[i + j - 1] = p[j]

\* any(word in text for word in words)
AnyIn(words, text) ==
    \E k \in 1..Len(words) : Contains(words[k], text)

\* ------------------------------------------------------- ConversationMemory
\* current_topic = None
None == <<>>

general == <<"g", "e", "n", "e", "r", "a", "l">>

topic_keywords ==
    << [topic |-> <<"b", "u", "d", "g", "e", "t">>,
        keywords |-> << <<"b", "u", "d", "g", "e", "t">>,
                        <<"s", "u", "r", "p", "l", "u", "s">>,
                        <<"d", "e", "f", "i", "c", "i", "t">>,
                        <<"r", "e", "v", "e", "n", "u", "e">>,
                        <<"e", "x", "p", "e", "n", "s", "e", "s">> >>],
       [topic |-> <<"d", "e", "b", "t">>,
        keywords |-> << <<"d", "e", "b", "t">>,
                        <<"b", "o", "r", "r", "o", "w", "i", "n", "g">>,
                        <<"i", "n", "t", "e", "r", "e", "s", "t">>,
                        <<"c", "o", "s", "t">>,
                        <<"b", "o", "r", "r", "o", "w", "i", "n", "g", "s">> >>],
       [topic |-> <<"i", "n", "f", "r", "a", "s", "t", "r", "u", "c", "t", "u", "r", "e">>,
        keywords |-> << <<"i", "n", "f", "r", "a", "s", "t", "r", "u", "c", "t", "u", "r", "e">>,
                        <<"c", "a", "p", "i", "t", "a", "l">>,
                        <<"c", "o", "n", "s", "t", "r", "u", "c", "t", "i", "o", "n">>,
                        <<"w", "o", "r", "k", "s">>,
                        <<"p", "r", "o", "j", "e", "c", "t", "s">> >>],
       [topic |-> <<"t", "a", "x", "a", "t", "i", "o", "n">>,
        keywords |-> << <<"t", "a", "x", "a", "t", "i", "o", "n">>,
                        <<"t", "a", "x">>,
                        <<"g", "s", "p">>,
                        <<"b", "u", "r", "d", "e", "n">>,
                        <<"r", "e", "v", "e", "n", "u", "e">> >>],
       [topic |-> <<"s", "u", "p", "e", "r", "a", "n", "n", "u", "a", "t", "i", "o", "n">>,
        keywords |-> << <<"s", "u", "p", "e", "r", "a", "n", "n", "u", "a", "t", "i", "o", "n">>,
                        <<"p", "e", "n", "s", "i", "o", "n">>,
                        <<"f", "u", "n", "d", "i", "n", "g">>,
                        <<"l", "i", "a", "b", "i", "l", "i", "t", "i", "e", "s">> >>],
       [topic |-> <<"r", "i", "s", "k">>,
        keywords |-> << <<"r", "i", "s", "k">>,
                        <<"a", "s", "s", "e", "s", "s", "m", "e", "n", "t">>,
                        <<"m", "i", "t", "i", "g", "a", "t", "i", "o", "n">>,
                        <<"m", "a", "n", "a", "g", "e", "m", "e", "n", "t">>,
                        <<"p", "r", "u", "d", "e", "n", "t">> >>] >>

vague_phrases ==
    << <<"t", "e", "l", "l", " ", "m", "e", " ", "m", "o", "r", "e">>,
       <<"w", "h", "a", "t", " ", "a", "b", "o", "u", "t", " ", "i", "t">>,
       <<"e", "x", "p", "l", "a", "i", "n", " ", "m", "o", "r", "e">>,
       <<"m", "o", "r", "e", " ", "d", "e", "t", "a", "i", "l", "s">> >>

pronoun_words ==
    << <<"t", "h", "a", "t">>,
       <<"t", "h", "i", "s">>,
       <<"i", "t">> >>

about_clause == <<" ", "a", "b", "o", "u", "t", " ">>

referring_open == <<" ", "(", "r", "e", "f", "e", "r", "r", "i", "n", "g", " ", "t", "o", " ">>

referring_close == <<")">>

Topics == {topic_keywords[i].topic : i \in 1..Len(topic_keywords)} \cup {general}

\* score = sum(1 for keyword in keywords if keyword in text_lower)
KeywordScore(keywords, text_lower) ==
    Cardinality({k \in 1..Len(keywords) : Contains(keywords[k], text_lower)})

\* topic_scores: the (topic, score) pairs with score > 0, in the insertion
\* order of topic_keywords.
topic_scores(text_lower) ==
    LET all == [i \in 1..Len(topic_keywords) |->
                   [topic |-> topic_keywords[i].topic,
                    score |-> KeywordScore(topic_keywords[i].keywords, text_lower)]]
        Positive(p) == p.score > 0
    IN  SelectSeq(all, Positive)

\* max(topic_scores, key=topic_scores.get): a left-to-right scan that keeps the
\* first entry whose score is strictly greater than every earlier one.
RECURSIVE MaxScan(_, _, _)
MaxScan(scores, i, best) ==
    IF i > Len(scores) THEN best
    ELSE MaxScan(scores, i + 1, IF scores[i].score > best.score THEN scores[i] ELSE best)

\* The scan keeping the last of several maximal scores (>= for >).
RECURSIVE MaxScanLast(_, _, _)
MaxScanLast(scores, i, best) ==
    IF i > Len(scores) THEN best
    ELSE MaxScanLast(scores, i + 1, IF scores[i].score >= best.score THEN scores[i] ELSE best)

identify_topic_last_wins(text) ==
    LET scores == topic_scores(lower(text))
    IN  IF scores # <<>> THEN MaxScanLast(scores, 2, scores[1]).topic ELSE general


identify_topic(text) ==
    LET scores == topic_scores(lower(text))
    IN  IF scores # <<>> THEN MaxScan(scores, 2, scores[1]).topic ELSE general

\* str.replace('_', ' ') applied to the topic name.
replace_underscore(s) ==
    [i \in 1..Len(s) |-> IF s[i] = "_" THEN " " ELSE s[i]]

\* enhance_question whose first rule appends the clause without the topic.
enhance_question_no_topic(question, topic) ==
    LET question_lower == lower(question)
    IN  IF AnyIn(vague_phrases, question_lower) /\ topic # None /\ topic # general
        THEN question \o about_clause
        ELSE IF AnyIn(pronoun_words, question_lower) /\ topic # None
        THEN question \o referring_open \o replace_underscore(topic) \o referring_close
        ELSE question

\* enhance_question whose first rule does not return: the second rule is
\* applied to its result as well.
enhance_question_both(question, topic) ==
    LET question_lower == lower(question)
        first == IF AnyIn(vague_phrases, question_lower) /\ topic # None /\ topic # general
                 THEN question \o about_clause \o replace_underscore(topic)
                 ELSE question
    IN  IF AnyIn(pronoun_words, question_lower) /\ topic # None
        THEN first \o referring_open \o replace_underscore(topic) \o referring_close
        ELSE first


enhance_question(question, topic) ==
    LET question_lower == lower(question)
    IN  IF AnyIn(vague_phrases, question_lower) /\ topic # None /\ topic # general
        THEN question \o about_clause \o replace_underscore(topic)
        ELSE IF AnyIn(pronoun_words, question_lower) /\ topic # None
        THEN question \o referring_open \o replace_underscore(topic) \o referring_close
        ELSE question

\* ------------------------------------------------------- response synthesis
budget_terms ==
    << <<"b", "u", "d", "g", "e", "t">>,
       <<"s", "u", "r", "p", "l", "u", "s">>,
       <<"d", "e", "f", "i", "c", "i", "t">> >>

debt_terms ==
    << <<"d", "e", "b", "t">>,
       <<"b", "o", "r", "r", "o", "w", "i", "n", "g">>,
       <<"i", "n", "t", "e", "r", "e", "s", "t">> >>

infrastructure_terms ==
    << <<"i", "n", "f", "r", "a", "s", "t", "r", "u", "c", "t", "u", "r", "e">>,
       <<"c", "a", "p", "i", "t", "a", "l">>,
       <<"c", "o", "n", "s", "t", "r", "u", "c", "t", "i", "o", "n">> >>

taxation_terms ==
    << <<"t", "a", "x">>,
       <<"t", "a", "x", "a", "t", "i", "o", "n">>,
       <<"r", "e", "v", "e", "n", "u", "e">> >>

risk_terms ==
    << <<"r", "i", "s", "k">>,
       <<"a", "s", "s", "e", "s", "s", "m", "e", "n", "t">>,
       <<"m", "i", "t", "i", "g", "a", "t", "i", "o", "n">>,
       <<"m", "a", "n", "a", "g", "e", "m", "e", "n", "t">> >>

superannuation_terms ==
    << <<"s", "u", "p", "e", "r", "a", "n", "n", "u", "a", "t", "i", "o", "n">>,
       <<"p", "e", "n", "s", "i", "o", "n">>,
       <<"f", "u", "n", "d", "i", "n", "g">> >>

\* Template selection testing the families in the order of topic_keywords
\* (superannuation before risk).
select_template_topic_order(question) ==
    LET question_lower == lower(question)
    IN  IF AnyIn(budget_terms, question_lower) THEN "budget"
        ELSE IF AnyIn(debt_terms, question_lower) THEN "debt"
        ELSE IF AnyIn(infrastructure_terms, question_lower) THEN "infrastructure"
        ELSE IF AnyIn(taxation_terms, question_lower) THEN "taxation"
        ELSE IF AnyIn(superannuation_terms, question_lower) THEN "superannuation"
        ELSE IF AnyIn(risk_terms, question_lower) THEN "risk"
        ELSE "general"

\* Template selection testing the debt family before the budget family.
select_template_debt_first(question) ==
    LET question_lower == lower(question)
    IN  IF AnyIn(debt_terms, question_lower) THEN "debt"
        ELSE IF AnyIn(budget_terms, question_lower) THEN "budget"
        ELSE IF AnyIn(infrastructure_terms, question_lower) THEN "infrastructure"
        ELSE IF AnyIn(taxation_terms, question_lower) THEN "taxation"
        ELSE IF AnyIn(risk_terms, question_lower) THEN "risk"
        ELSE IF AnyIn(superannuation_terms, question_lower) THEN "superannuation"
        ELSE "general"

\* The template (one of the _format_*_response methods) chosen for a question.
select_template(question) ==
    LET question_lower == lower(question)
    IN  IF AnyIn(budget_terms, question_lower) THEN "budget"
        ELSE IF AnyIn(debt_terms, question_lower) THEN "debt"
        ELSE IF AnyIn(infrastructure_terms, question_lower) THEN "infrastructure"
        ELSE IF AnyIn(taxation_terms, question_lower) THEN "taxation"
        ELSE IF AnyIn(risk_terms, question_lower) THEN "risk"
        ELSE IF AnyIn(superannuation_terms, question_lower) THEN "superannuation"
        ELSE "general"

\* The words of the first line each template writes.
headline(template) ==
    CASE template = "budget" -> <<"B", "U", "D", "G", "E", "T", " ", "A", "N", "A", "L", "Y", "S", "I", "S">>
      [] template = "debt" -> <<"D", "E", "B", "T", " ", "M", "A", "N", "A", "G", "E", "M", "E", "N", "T", " ", "A", "N", "A", "L", "Y", "S", "I", "S">>
      [] template = "infrastructure" -> <<"I", "N", "F", "R", "A", "S", "T", "R", "U", "C", "T", "U", "R", "E", " ", "I", "N", "V", "E", "S", "T", "M", "E", "N", "T", " ", "A", "N", "A", "L", "Y", "S", "I", "S">>
      [] template = "taxation" -> <<"T", "A", "X", "A", "T", "I", "O", "N", " ", "P", "O", "L", "I", "C", "Y", " ", "A", "N", "A", "L", "Y", "S", "I", "S">>
      [] template = "risk" -> <<"F", "I", "N", "A", "N", "C", "I", "A", "L", " ", "R", "I", "S", "K", " ", "A", "S", "S", "E", "S", "S", "M", "E", "N", "T">>
      [] template = "superannuation" -> <<"S", "U", "P", "E", "R", "A", "N", "N", "U", "A", "T", "I", "O", "N", " ", "F", "U", "N", "D", "I", "N", "G", " ", "A", "N", "A", "L", "Y", "S", "I", "S">>
      [] OTHER -> <<"B", "a", "s", "e", "d", " ", "o", "n", " ", "t", "h", "e", " ", "f", "i", "n", "a", "n", "c", "i", "a", "l", " ", "p", "o", "l", "i", "c", "y", " ", "d", "o", "c", "u", "m", "e", "n", "t", ":">>

\* A rendered response: the template, its headline, the combined content of
\* the top 2 results and the set of source labels.
create_contextual_response(question, content_pieces, sources) ==
    LET template == select_template(question)
    IN  [kind |-> "response",
         template |-> template,
         headline |-> headline(template),
         content |-> SubSeq(content_pieces, 1, IF Len(content_pieces) < 2 THEN Len(content_pieces) ELSE 2),
         sources |-> {sources[i] : i \in 1..Len(sources)}]

NotFoundMessage == [kind |-> "not_found"]

\* _generate_response without its test for an empty result list.
generate_response_always_renders(question, search_results) ==
    create_contextual_response(
        question,
        [i \in 1..Len(search_results) |-> search_results[i].content],
        [i \in 1..Len(search_results) |-> search_results[i].section_type])

generate_response(question, search_results) ==
    IF search_results = <<>> THEN NotFoundMessage
    ELSE create_contextual_response(
             question,
             [i \in 1..Len(search_results) |-> search_results[i].content],
             [i \in 1..Len(search_results) |-> search_results[i].section_type])

\* ---------------------------------------------------------- DocumentProcessor
section_words ==
    << [section |-> "budget",
        words |-> << <<"b", "u", "d", "g", "e", "t">>,
                     <<"s", "u", "r", "p", "l", "u", "s">>,
                     <<"d", "e", "f", "i", "c", "i", "t">>,
                     <<"o", "p", "e", "r", "a", "t", "i", "n", "g", " ", "r", "e", "s", "u", "l", "t">> >>],
       [section |-> "debt",
        words |-> << <<"d", "e", "b", "t">>,
                     <<"b", "o", "r", "r", "o", "w", "i", "n", "g">>,
                     <<"i", "n", "t", "e", "r", "e", "s", "t", " ", "c", "o", "s", "t">> >>],
       [section |-> "infrastructure",
        words |-> << <<"i", "n", "f", "r", "a", "s", "t", "r", "u", "c", "t", "u", "r", "e">>,
                     <<"c", "a", "p", "i", "t", "a", "l">>,
                     <<"c", "o", "n", "s", "t", "r", "u", "c", "t", "i", "o", "n">> >>],
       [section |-> "taxation",
        words |-> << <<"t", "a", "x", "a", "t", "i", "o", "n">>,
                     <<"t", "a", "x", " ", "b", "u", "r", "d", "e", "n">>,
                     <<"g", "s", "p">> >>],
       [section |-> "superannuation",
        words |-> << <<"s", "u", "p", "e", "r", "a", "n", "n", "u", "a", "t", "i", "o", "n">>,
                     <<"p", "e", "n", "s", "i", "o", "n">>,
                     <<"f", "u", "n", "d", "i", "n", "g">> >>],
       [section |-> "risk",
        words |-> << <<"r", "i", "s", "k">>,
                     <<"a", "s", "s", "e", "s", "s", "m", "e", "n", "t">>,
                     <<"m", "i", "t", "i", "g", "a", "t", "i", "o", "n">> >>] >>

CurrentText ==
    << <<"B", "u", "d", "g", "e", "t", " ", "s", "u", "r", "p", "l", "u", "s">>,
       <<"i", "n", "t", "e", "r", "e", "s", "t", " ", "c", "o", "s", "t", " ", "o", "f", " ", "d", "e", "b", "t">>,
       <<"p", "r", "u", "d", "e", "n", "t", " ", "m", "a", "n", "a", "g", "e", "m", "e", "n", "t">> >>

PreviousText ==
    << <<"c", "a", "p", "i", "t", "a", "l", " ", "w", "o", "r", "k", "s">>,
       <<"p", "e", "n", "s", "i", "o", "n", " ", "f", "u", "n", "d", "i", "n", "g">>,
       <<"G", "S", "P">>,
       <<"t", "a", "x", " ", "b", "u", "r", "d", "e", "n">> >>

\* First section whose word list has a member occurring in the lower-cased text.
RECURSIVE SectionScan(_, _)
SectionScan(text_lower, i) ==
    IF i > Len(section_words) THEN "general"
    ELSE IF AnyIn(section_words[i].words, text_lower) THEN section_words[i].section
    ELSE SectionScan(text_lower, i + 1)

identify_section_type(text) == SectionScan(lower(text), 1)

\* The chunks process_document returns for a document of n chunks: ids
\* chunk_0 .. chunk_(n-1) in source order (an id is modelled by its number).
process_document(text, n) ==
    [i \in 1..n |->
        [id |-> i - 1,
         content |-> text[i],
         section_type |-> identify_section_type(text[i]),
         chunk_index |-> i - 1]]

\* ------------------------------------------------------------- VectorDatabase
\* The records collection.add stores for a list of processed chunks.
IndexRecords(docs) ==
    {[id |-> docs[i].id, content |-> docs[i].content, section_type |-> docs[i].section_type] :
        i \in 1..Len(docs)}

Ids(records) == {r.id : r \in records}

\* collection.add on a persistent collection: ids are unique within the
\* collection, a record whose id is already stored is not stored again.
collection_add(stored, records) ==
    stored \cup {r \in records : r.id \notin Ids(stored)}

\* The distance the store reports between a query and a stored record. The
\* embedding model is a deterministic text -> vector map outside this
\* repository; any fixed function of the two texts stands for it.
Distance(query, r) == (Len(query) + Len(r.content) + r.id) % DistanceRange

\* collection.query: the n_results nearest records, nearest first.
RECURSIVE Nearest(_, _, _)
Nearest(query, records, n) ==
    IF n = 0 \/ records = {} THEN <<>>
    ELSE LET best == CHOOSE r \in records :
                        \A o \in records :
                            \/ Distance(query, r) < Distance(query, o)
                            \/ Distance(query, r) = Distance(query, o) /\ r.id <= o.id
         IN  <<best>> \o Nearest(query, records \ {best}, n - 1)

\* results['distances'][0]: the distances collection.query reports, in the
\* order of its records.
query_distances(stored, query, n_results) ==
    LET hits == Nearest(query, stored, n_results)
    IN  [i \in 1..Len(hits) |-> Distance(query, hits[i])]

\* search copying the distance into the score (no 1 - distance).
search_score_is_distance(stored, query, n_results) ==
    LET hits == Nearest(query, stored, n_results)
    IN  [i \in 1..Len(hits) |->
            [content |-> hits[i].content,
             section_type |-> hits[i].section_type,
             score |-> Distance(query, hits[i])]]

\* VectorDatabase.search: one result per returned record, score = 1 - distance.
search(stored, query, n_results) ==
    LET hits == Nearest(query, stored, n_results)
    IN  [i \in 1..Len(hits) |->
            [content |-> hits[i].content,
             section_type |-> hits[i].section_type,
             score |-> 1 - Distance(query, hits[i])]]

\* add_interaction leaving current_topic alone when the question has no topic
\* of its own.
add_interaction_keeps_topic(history, capacity, question, response) ==
    LET interaction == [question |-> question,
                        response |-> response,
                        topic |-> identify_topic(question)]
        appended == Append(history, interaction)
    IN  [conversation_history |-> IF Len(appended) > capacity THEN Tail(appended) ELSE appended,
         current_topic |-> IF interaction.topic = general /\ history # <<>>
                           THEN history[Len(history)].topic
                           ELSE interaction.topic]

\* add_interaction evicting the newest interaction (pop() for pop(0)).
add_interaction_drops_newest(history, capacity, question, response) ==
    LET interaction == [question |-> question,
                        response |-> response,
                        topic |-> identify_topic(question)]
        appended == Append(history, interaction)
    IN  [conversation_history |-> IF Len(appended) > capacity
                                  THEN SubSeq(appended, 1, Len(appended) - 1)
                                  ELSE appended,
         current_topic |-> interaction.topic]

\* add_interaction evicting as soon as the history is full (>= for >).
add_interaction_evict_early(history, capacity, question, response) ==
    LET interaction == [question |-> question,
                        response |-> response,
                        topic |-> identify_topic(question)]
        appended == Append(history, interaction)
    IN  [conversation_history |-> IF Len(appended) >= capacity THEN Tail(appended) ELSE appended,
         current_topic |-> interaction.topic]

\* ------------------------------------------------------- memory operations
\* add_interaction: the history and current topic after recording (question, response).
add_interaction(history, capacity, question, response) ==
    LET interaction == [question |-> question,
                        response |-> response,
                        topic |-> identify_topic(question)]
        appended == Append(history, interaction)
    IN  [conversation_history |-> IF Len(appended) > capacity THEN Tail(appended) ELSE appended,
         current_topic |-> interaction.topic]

\* enhance_question taking its topic from the oldest stored interaction.
memory_enhance_question_oldest(history, topic, question) ==
    enhance_question(question, IF history # <<>> THEN history[1].topic ELSE topic)

\* memory.enhance_question(question) on a memory holding (history, topic):
\* the method reads self.current_topic and nothing else of the memory.
memory_enhance_question(history, topic, question) ==
    enhance_question(question, topic)

\* get_context taking the three oldest interactions (history[:3]).
get_context_oldest(history, topic) ==
    [current_topic |-> IF topic # None THEN topic ELSE general,
     recent_topics |-> [i \in 1..(IF Len(history) < 3 THEN Len(history) ELSE 3) |->
                           history[i].topic],
     history_length |-> Len(history)]

\* get_context
get_context(history, topic) ==
    [current_topic |-> IF topic # None THEN topic ELSE general,
     recent_topics |-> [i \in 1..(IF Len(history) < 3 THEN Len(history) ELSE 3) |->
                           history[Len(history) - (IF Len(history) < 3 THEN Len(history) ELSE 3) + i].topic],
     history_length |-> Len(history)]

\* ------------------------------------------- get_conversation_summary
NoHistoryMessage == [kind |-> "no_history"]

\* The three lines of the summary: "Total questions asked", "Current topic"
\* and "Recent topics" (the set of the recent topics; the line is left out
\* when there is none).
get_conversation_summary(history, topic) ==
    LET context == get_context(history, topic)
    IN  IF context.history_length = 0 THEN NoHistoryMessage
        ELSE [kind |-> "summary",
              total_questions |-> context.history_length,
              current_topic |-> title(replace_underscore(context.current_topic)),
              recent_topics |-> {context.recent_topics[i] : i \in 1..Len(context.recent_topics)}]

\* ------------------------------------------------------------------ inputs
space == <<" ">>

Fragments ==
    { <<"T", "e", "l", "l", " ", "m", "e", " ", "m", "o", "r", "e">>,
      <<"w", "h", "a", "t", " ", "a", "b", "o", "u", "t", " ", "i", "t">>,
      <<"e", "x", "p", "l", "a", "i", "n", " ", "t", "h", "i", "s">>,
      <<"d", "e", "f", "i", "c", "i", "t">>,
      <<"r", "e", "v", "e", "n", "u", "e">>,
      <<"t", "a", "x", "a", "t", "i", "o", "n">>,
      <<"D", "e", "b", "t">>,
      <<"r", "i", "s", "k">>,
      <<"p", "e", "n", "s", "i", "o", "n">>,
      <<"h", "e", "l", "l", "o">> }

\* Every text of at most n fragments joined by single spaces (n = 0: the empty text).
RECURSIVE Phrases(_)
Phrases(n) ==
    IF n = 0 THEN {<<>>}
    ELSE Phrases(n - 1) \cup
         {IF p = <<>> THEN f ELSE p \o space \o f : p \in Phrases(n - 1), f \in Fragments}

Questions == Phrases(MaxFrags)

TopicsOrNone == Topics \cup {None}

SampleResults ==
    << [content |-> CurrentText[1], section_type |-> "budget", score |-> 1],
       [content |-> CurrentText[2], section_type |-> "debt", score |-> 0] >>

\* -------------------------------------------------------------------- state
VARIABLES
    arg_question,          \* pure-function specification: the question passed in
    arg_topic,             \* pure-function specification: current_topic passed in
    result,                \* pure-function specification: the last call and its value
    document,              \* the policy document on disk: [exists, chunks]
    collection_exists,     \* ./chroma_db holds the collection "financial_policy"
    store,                 \* the records of the persistent collection
    received,              \* id -> number of times collection.add accepted a record with that id
    pc,                    \* session -> where its FinancialChatbot is in its life
    is_initialized,        \* session -> FinancialChatbot.is_initialized
    documents,             \* session -> the chunks process_document returned
    init_count,            \* session -> document_count when its _initialize began
    max_history,           \* session -> ConversationMemory.max_history
    conversation_history,  \* session -> ConversationMemory.conversation_history
    current_topic,         \* session -> ConversationMemory.current_topic
    recorded,              \* session -> every interaction recorded since the last clear
    last,                  \* the last operation performed, its inputs and its outcome
    asks                   \* number of ask() calls made so far

pure_vars == <<arg_question, arg_topic, result>>
store_vars == <<document, collection_exists, store, received>>
session_vars == <<pc, is_initialized, documents, init_count>>
memory_vars == <<max_history, conversation_history, current_topic, recorded>>
vars == <<pure_vars, store_vars, session_vars, memory_vars, last, asks>>

Sessions == 1..NumSessions

ChunkIds == 0..(Len(CurrentText) - 1)

NoDocument == [exists |-> FALSE, chunks |-> 0]

Documents == {NoDocument} \cup {[exists |-> TRUE, chunks |-> n] : n \in 1..MaxChunks}

\* What ./chroma_db can hold when the program starts: nothing, the index of the
\* document as it is now, or the index of an earlier edition of the document.
InitialStores(doc) ==
    {{}}
    \cup (IF doc.exists THEN {IndexRecords(process_document(CurrentText, doc.chunks))} ELSE {})
    \cup {IndexRecords(process_document(PreviousText, m)) : m \in 1..MaxChunks}

NoCall == [fn |-> "none"]

NoOp == [op |-> "none"]

\* The values every specification starts its sessions with: no chatbot yet.
SessionsAbsent ==
    /\ pc = [s \in Sessions |-> "absent"]
    /\ is_initialized = [s \in Sessions |-> FALSE]
    /\ documents = [s \in Sessions |-> <<>>]
    /\ init_count = [s \in Sessions |-> 0]
    /\ max_history = [s \in Sessions |-> DefaultMaxHistory]
    /\ conversation_history = [s \in Sessions |-> <<>>]
    /\ current_topic = [s \in Sessions |-> None]
    /\ recorded = [s \in Sessions |-> <<>>]
    /\ last = NoOp
    /\ asks = 0

PureIdle ==
    /\ arg_question = <<>>
    /\ arg_topic = None
    /\ result = NoCall

Init ==
    /\ PureIdle
    /\ document \in Documents
    /\ store \in InitialStores(document)
    /\ collection_exists \in (IF store = {} THEN BOOLEAN ELSE {TRUE})
    /\ received = [i \in ChunkIds |-> 0]
    /\ SessionsAbsent

\* ------------------------------------------------- FinancialChatbot.__init__
\* FinancialChatbot(path) up to VectorDatabase's get_collection: a fresh
\* processor, memory and is_initialized = False.
Construct(s) ==
    /\ pc[s] \in {"absent", "failed"}
    /\ pc' = [pc EXCEPT ![s] = IF collection_exists THEN "initialize" ELSE "create_collection"]
    /\ is_initialized' = [is_initialized EXCEPT ![s] = FALSE]
    /\ documents' = [documents EXCEPT ![s] = <<>>]
    /\ init_count' = [init_count EXCEPT ![s] = 0]
    /\ max_history' = [max_history EXCEPT ![s] = DefaultMaxHistory]
    /\ conversation_history' = [conversation_history EXCEPT ![s] = <<>>]
    /\ current_topic' = [current_topic EXCEPT ![s] = None]
    /\ recorded' = [recorded EXCEPT ![s] = <<>>]
    /\ last' = [op |-> "construct", session |-> s, pre_store |-> store]
    /\ UNCHANGED <<pure_vars, store_vars, asks>>

\* The except branch of VectorDatabase.__init__: create_collection, which
\* raises when another session created the collection in the meantime. The
\* exception leaves FinancialChatbot.__init__ before memory and
\* is_initialized are assigned: no chatbot comes to exist.
CreateCollection(s) ==
    /\ pc[s] = "create_collection"
    /\ IF collection_exists
       THEN /\ pc' = [pc EXCEPT ![s] = "absent"]
            /\ UNCHANGED collection_exists
       ELSE /\ pc' = [pc EXCEPT ![s] = "initialize"]
            /\ collection_exists' = TRUE
    /\ last' = [op |-> "create_collection", session |-> s, pre_store |-> store,
                raised |-> collection_exists]
    /\ UNCHANGED <<pure_vars, document, store, received, is_initialized, documents,
                   init_count, memory_vars, asks>>

\* _initialize with a process_document that swallows its failure and returns
\* no chunk: initialization goes on.
ProcessDocument_swallowed(s) ==
    /\ pc[s] = "initialize"
    /\ init_count' = [init_count EXCEPT ![s] = Cardinality(store)]
    /\ \E processing_ok \in BOOLEAN :
          /\ documents' = [documents EXCEPT ![s] =
                              IF document.exists /\ processing_ok
                              THEN process_document(CurrentText, document.chunks)
                              ELSE <<>>]
          /\ pc' = [pc EXCEPT ![s] = "read_count"]
          /\ last' = [op |-> "process_document", session |-> s, pre_store |-> store,
                      raised |-> ~(document.exists /\ processing_ok)]
    /\ UNCHANGED <<pure_vars, store_vars, is_initialized, memory_vars, asks>>

\* _initialize, first statement: process_document. A missing file raises
\* FileNotFoundError, any other failure is re-raised as Exception; both leave
\* the constructor.
ProcessDocument(s) ==
    /\ pc[s] = "initialize"
    /\ init_count' = [init_count EXCEPT ![s] = Cardinality(store)]
    /\ \E processing_ok \in BOOLEAN :
          IF document.exists /\ processing_ok
          THEN /\ documents' = [documents EXCEPT ![s] = process_document(CurrentText, document.chunks)]
               /\ pc' = [pc EXCEPT ![s] = "read_count"]
               /\ last' = [op |-> "process_document", session |-> s, pre_store |-> store,
                           raised |-> FALSE]
          ELSE /\ UNCHANGED documents
               /\ pc' = [pc EXCEPT ![s] = "failed"]
               /\ last' = [op |-> "process_document", session |-> s, pre_store |-> store,
                           raised |-> TRUE]
    /\ UNCHANGED <<pure_vars, store_vars, is_initialized, memory_vars, asks>>

\* _initialize adding whatever the count is.
needs_add_always(document_count) == document_count >= 0

\* if db_info['document_count'] == 0
needs_add(document_count) == document_count = 0

\* _initialize: get_collection_info and the decision to add. When nothing is
\* to be added the method finishes here with is_initialized = True.
ReadCount(s) ==
    /\ pc[s] = "read_count"
    /\ IF needs_add(Cardinality(store))
       THEN /\ pc' = [pc EXCEPT ![s] = "add_documents"]
            /\ UNCHANGED is_initialized
       ELSE /\ pc' = [pc EXCEPT ![s] = "ready"]
            /\ is_initialized' = [is_initialized EXCEPT ![s] = TRUE]
    /\ last' = [op |-> "read_count", session |-> s, pre_store |-> store,
                document_count |-> Cardinality(store)]
    /\ UNCHANGED <<pure_vars, store_vars, documents, init_count, memory_vars, asks>>

\* How a call of add_documents can end: model.encode raises at the at-th
\* chunk, collection.add raises, or both complete.
AddOutcomes(docs) ==
    {[kind |-> "ok", at |-> 0], [kind |-> "storage_error", at |-> 0]}
    \cup {[kind |-> "encode_error", at |-> i] : i \in 1..Len(docs)}

\* add_documents handing each chunk to the collection as soon as it is
\* embedded: the chunks before a failing one are stored.
add_documents_one_by_one(stored, docs, outcome) ==
    IF outcome.kind = "ok" THEN collection_add(stored, IndexRecords(docs))
    ELSE IF outcome.kind = "encode_error"
         THEN collection_add(stored, IndexRecords(SubSeq(docs, 1, outcome.at - 1)))
         ELSE stored

\* VectorDatabase.add_documents: the collection after the call. The loop
\* only fills local lists; the collection is written by the single
\* collection.add that follows it.
add_documents(stored, docs, outcome) ==
    IF outcome.kind = "ok" THEN collection_add(stored, IndexRecords(docs))
    ELSE stored

\* _initialize: vector_db.add_documents(documents), then is_initialized = True.
\* A failure of add_documents leaves the constructor with the exception.
AddDocuments(s) ==
    /\ pc[s] = "add_documents"
    /\ \E outcome \in AddOutcomes(documents[s]) :
          /\ store' = add_documents(store, documents[s], outcome)
          /\ IF outcome.kind = "ok"
             THEN /\ received' = [i \in ChunkIds |->
                                     IF i \in Ids(IndexRecords(documents[s]))
                                     THEN received[i] + 1 ELSE received[i]]
                  /\ pc' = [pc EXCEPT ![s] = "ready"]
                  /\ is_initialized' = [is_initialized EXCEPT ![s] = TRUE]
             ELSE /\ UNCHANGED <<received, is_initialized>>
                  /\ pc' = [pc EXCEPT ![s] = "failed"]
          /\ last' = [op |-> "add_documents", session |-> s, pre_store |-> store,
                      outcome |-> outcome]
    /\ UNCHANGED <<pure_vars, document, collection_exists, documents, init_count,
                   memory_vars, asks>>

\* The session ends (main() leaves its loop on 'quit', a browser session
\* closes): its chatbot is gone, ./chroma_db stays.
EndSession(s) ==
    /\ pc[s] = "ready"
    /\ pc' = [pc EXCEPT ![s] = "absent"]
    /\ is_initialized' = [is_initialized EXCEPT ![s] = FALSE]
    /\ documents' = [documents EXCEPT ![s] = <<>>]
    /\ init_count' = [init_count EXCEPT ![s] = 0]
    /\ conversation_history' = [conversation_history EXCEPT ![s] = <<>>]
    /\ current_topic' = [current_topic EXCEPT ![s] = None]
    /\ recorded' = [recorded EXCEPT ![s] = <<>>]
    /\ last' = [op |-> "end_session", session |-> s, pre_store |-> store]
    /\ UNCHANGED <<pure_vars, store_vars, max_history, asks>>

\* ------------------------------------------------------ FinancialChatbot.ask
NotInitializedMessage == [kind |-> "not_initialized"]

NoException == [at |-> "none", msg |-> "none"]

\* An exception raised inside ask's try block: the call that raised it and
\* the text str(e) gives.
Exceptions ==
    {[at |-> "enhance_question", msg |-> "enhance failed"],
     [at |-> "search", msg |-> "embedding failed"],
     [at |-> "search", msg |-> "storage unavailable"],
     [at |-> "generate_response", msg |-> "generate failed"],
     [at |-> "add_interaction", msg |-> "record failed"]}

\* ask without its try/except: the exception leaves the method.
ask_without_except(exc) == [kind |-> "raised", error |-> exc.msg]

\* except Exception as e: return f"I apologize, ... {str(e)}"
ask_except(exc) == [kind |-> "apology", error |-> exc.msg]

\* ask without the is_initialized test.
not_initialized_unchecked(initialized) == FALSE

\* Where a session's chatbot has its memory and its is_initialized attribute:
\* from the call of _initialize on, also after _initialize has raised.
HasChatbot == {"initialize", "read_count", "add_documents", "failed", "ready"}

\* if not self.is_initialized: return "Chatbot is not properly initialized. ..."
not_initialized(initialized) == ~initialized

\* ask handing the enhanced question to add_interaction.
recorded_question_enhanced(question, enhanced_question) == enhanced_question

\* memory.add_interaction(question, response): ask records its own argument,
\* not enhanced_question.
recorded_question(question, enhanced_question) == question

\* ask recording the question before it enhances it: enhance_question sees
\* the topic of the question itself.
enhancement_topic_after_recording(topic, question) == identify_topic(question)

\* enhance_question is the first call of ask's try block: the current_topic
\* it reads is the one the memory holds when ask is entered.
enhancement_topic(topic, question) == topic

\* ask calling add_interaction right after enhance_question: only a failure
\* of enhance_question keeps the question out of the memory.
records_interaction_before_search(exc) == exc.at # "enhance_question"

\* add_interaction is the last call of ask's try block: it is reached only
\* when no earlier call raised, and it changes the memory only when it does
\* not raise itself.
records_interaction(exc) == exc = NoException

\* ask(question), the whole method, on a chatbot in any state of its life
\* (no caller in the repository holds a chatbot before its constructor has
\* returned; the method itself allows for it). Outside Ready it returns at once. Inside
\* the try block the four calls run in order; the first one that raises ends
\* the block, and add_interaction raises, if at all, while it classifies the
\* question, before the history is touched.
Ask(s, q) ==
    /\ pc[s] \in HasChatbot
    /\ asks < MaxAsks
    /\ asks' = asks + 1
    /\ IF not_initialized(is_initialized[s])
       THEN /\ last' = [op |-> "ask", session |-> s, question |-> q, ready |-> is_initialized[s],
                        exc |-> NoException, enhanced |-> q, searched |-> FALSE,
                        results |-> <<>>, value |-> NotInitializedMessage,
                        pre_history |-> conversation_history[s],
                        pre_topic |-> current_topic[s], pre_store |-> store]
            /\ UNCHANGED <<conversation_history, current_topic, recorded>>
       ELSE LET enhanced == memory_enhance_question(conversation_history[s],
                                                    enhancement_topic(current_topic[s], q), q)
                results == search(store, enhanced, SearchResults)
                response == generate_response(enhanced, results)
                mem == add_interaction(conversation_history[s], max_history[s],
                                       recorded_question(q, enhanced), response)
            IN  \E exc \in Exceptions \cup {NoException} :
                   /\ last' = [op |-> "ask", session |-> s, question |-> q, ready |-> is_initialized[s],
                               exc |-> exc, enhanced |-> enhanced,
                               searched |-> exc.at # "enhance_question",
                               results |-> IF exc.at \in {"enhance_question", "search"}
                                           THEN <<>> ELSE results,
                               value |-> IF exc = NoException THEN response ELSE ask_except(exc),
                               pre_history |-> conversation_history[s],
                               pre_topic |-> current_topic[s], pre_store |-> store]
                   /\ IF records_interaction(exc)
                      THEN /\ conversation_history' =
                                 [conversation_history EXCEPT ![s] = mem.conversation_history]
                           /\ current_topic' = [current_topic EXCEPT ![s] = mem.current_topic]
                           /\ recorded' = [recorded EXCEPT ![s] =
                                             Append(@, [question |-> recorded_question(q, enhanced),
                                                        response |-> response,
                                                        topic |-> mem.current_topic])]
                      ELSE UNCHANGED <<conversation_history, current_topic, recorded>>
    /\ UNCHANGED <<pure_vars, store_vars, session_vars, max_history>>

\* clear_history that also empties the collection.
clear_history_wipes_index(s) ==
    /\ conversation_history' = [conversation_history EXCEPT ![s] = <<>>]
    /\ current_topic' = [current_topic EXCEPT ![s] = None]
    /\ recorded' = [recorded EXCEPT ![s] = <<>>]
    /\ store' = {}
    /\ last' = [op |-> "clear_history", session |-> s,
                pre_history |-> conversation_history[s], pre_topic |-> current_topic[s],
                pre_capacity |-> max_history[s], pre_ready |-> is_initialized[s],
                pre_store |-> store]
    /\ UNCHANGED <<pure_vars, document, collection_exists, received, session_vars,
                   max_history, asks>>

\* clear_history emptying the history and keeping current_topic.
clear_history_keeps_topic(s) ==
    /\ conversation_history' = [conversation_history EXCEPT ![s] = <<>>]
    /\ recorded' = [recorded EXCEPT ![s] = <<>>]
    /\ last' = [op |-> "clear_history", session |-> s,
                pre_history |-> conversation_history[s], pre_topic |-> current_topic[s],
                pre_capacity |-> max_history[s], pre_ready |-> is_initialized[s],
                pre_store |-> store]
    /\ UNCHANGED <<pure_vars, store_vars, session_vars, max_history, current_topic, asks>>

\* ConversationMemory.clear_history
clear_history(s) ==
    /\ conversation_history' = [conversation_history EXCEPT ![s] = <<>>]
    /\ current_topic' = [current_topic EXCEPT ![s] = None]
    /\ recorded' = [recorded EXCEPT ![s] = <<>>]
    /\ last' = [op |-> "clear_history", session |-> s,
                pre_history |-> conversation_history[s], pre_topic |-> current_topic[s],
                pre_capacity |-> max_history[s], pre_ready |-> is_initialized[s],
                pre_store |-> store]
    /\ UNCHANGED <<pure_vars, store_vars, session_vars, max_history, asks>>

\* memory.get_context(): reads the memory, changes nothing.
GetContext(s) ==
    /\ last' = [op |-> "get_context", session |-> s,
                value |-> get_context(conversation_history[s], current_topic[s]),
                pre_history |-> conversation_history[s], pre_topic |-> current_topic[s],
                pre_capacity |-> max_history[s], pre_store |-> store]
    /\ UNCHANGED <<pure_vars, store_vars, session_vars, memory_vars, asks>>

\* chatbot.get_conversation_summary(): reads the memory, changes nothing.
GetConversationSummary(s) ==
    /\ last' = [op |-> "get_conversation_summary", session |-> s,
                value |-> get_conversation_summary(conversation_history[s], current_topic[s]),
                pre_history |-> conversation_history[s], pre_topic |-> current_topic[s],
                pre_ready |-> is_initialized[s], pre_store |-> store]
    /\ UNCHANGED <<pure_vars, store_vars, session_vars, memory_vars, asks>>

\* The 'summary' command of main() and the front end's summary panel.
SessionSummary(s) ==
    /\ pc[s] = "ready"
    /\ GetConversationSummary(s)

\* The front end's reset button: chatbot.memory.clear_history() on the
\* session's initialized chatbot.
ResetSession(s) ==
    /\ pc[s] = "ready"
    /\ clear_history(s)

\* The questions asked of a running chatbot.
AskQuestions ==
    { <<"T", "e", "l", "l", " ", "m", "e", " ", "m", "o", "r", "e">>,
      <<"W", "h", "a", "t", " ", "a", "b", "o", "u", "t", " ", "t", "h", "e", " ", "b", "u", "d", "g", "e", "t", " ", "d", "e", "f", "i", "c", "i", "t", "?">>,
      <<"p", "e", "n", "s", "i", "o", "n", " ", "r", "i", "s", "k">> }

\* One chatbot from construction to the end of its session.
Next ==
    \/ Construct(1)
    \/ CreateCollection(1)
    \/ ProcessDocument(1)
    \/ ReadCount(1)
    \/ AddDocuments(1)
    \/ \E q \in AskQuestions : Ask(1, q)
    \/ ResetSession(1)
    \/ SessionSummary(1)
    \/ EndSession(1)

Spec == Init /\ [][Next]_vars

\* Several sessions starting and ending chatbots on the same ./chroma_db.
NextSessions ==
    \/ \E s \in Sessions : Construct(s)
    \/ \E s \in Sessions : CreateCollection(s)
    \/ \E s \in Sessions : ProcessDocument(s)
    \/ \E s \in Sessions : ReadCount(s)
    \/ \E s \in Sessions : AddDocuments(s)
    \/ \E s \in Sessions : EndSession(s)

SpecSessions == Init /\ [][NextSessions]_vars

\* ------------------------------------------- ConversationMemory on its own
Capacities == 0..MaxCapacity \cup {DefaultMaxHistory}

MemoryQuestions ==
    { <<"d", "e", "f", "i", "c", "i", "t">>,
      <<"h", "e", "l", "l", "o">> }

MemoryResponses == {NotFoundMessage}

InitMemory ==
    /\ PureIdle
    /\ document = NoDocument
    /\ store = {}
    /\ collection_exists = FALSE
    /\ received = [i \in ChunkIds |-> 0]
    /\ pc = [s \in Sessions |-> "absent"]
    /\ is_initialized = [s \in Sessions |-> FALSE]
    /\ documents = [s \in Sessions |-> <<>>]
    /\ init_count = [s \in Sessions |-> 0]
    /\ \E capacity \in Capacities : max_history = [s \in Sessions |-> capacity]
    /\ conversation_history = [s \in Sessions |-> <<>>]
    /\ current_topic = [s \in Sessions |-> None]
    /\ recorded = [s \in Sessions |-> <<>>]
    /\ last = NoOp
    /\ asks = 0

\* memory.add_interaction(question, response) called on the memory itself.
Record(s, q, r) ==
    /\ Len(recorded[s]) < max_history[s] + RecordSlack
    /\ LET mem == add_interaction(conversation_history[s], max_history[s], q, r)
       IN  /\ conversation_history' = [conversation_history EXCEPT ![s] = mem.conversation_history]
           /\ current_topic' = [current_topic EXCEPT ![s] = mem.current_topic]
           /\ recorded' = [recorded EXCEPT ![s] =
                             Append(@, [question |-> q, response |-> r, topic |-> mem.current_topic])]
           /\ last' = [op |-> "add_interaction", session |-> s, question |-> q,
                       pre_history |-> conversation_history[s],
                       pre_topic |-> current_topic[s], pre_store |-> store]
    /\ UNCHANGED <<pure_vars, store_vars, session_vars, max_history, asks>>

\* The questions enhance_question is called with on a memory of its own: a
\* vague continuation, a question with a pronoun, a question with neither.
EnhanceQuestions ==
    { <<"T", "e", "l", "l", " ", "m", "e", " ", "m", "o", "r", "e">>,
      <<"e", "x", "p", "l", "a", "i", "n", " ", "t", "h", "i", "s">>,
      <<"d", "e", "f", "i", "c", "i", "t">> }

\* memory.enhance_question(question) called on the memory itself: reads the
\* memory, changes nothing.
Enhance(s, q) ==
    /\ last' = [op |-> "enhance_question", session |-> s, question |-> q,
                value |-> memory_enhance_question(conversation_history[s], current_topic[s], q),
                pre_history |-> conversation_history[s], pre_topic |-> current_topic[s],
                pre_capacity |-> max_history[s], pre_store |-> store]
    /\ UNCHANGED <<pure_vars, store_vars, session_vars, memory_vars, asks>>

NextMemory ==
    \/ \E q \in MemoryQuestions, r \in MemoryResponses : Record(1, q, r)
    \/ \E q \in EnhanceQuestions : Enhance(1, q)
    \/ clear_history(1)
    \/ GetContext(1)
    \/ GetConversationSummary(1)

SpecMemory == InitMemory /\ [][NextMemory]_vars

\* ------------------------------------------- a dialogue with a ready chatbot
\* The questions of a dialogue: one question for each topic and a vague
\* continuation.
DialogueQuestions ==
    { <<"W", "h", "a", "t", " ", "a", "b", "o", "u", "t", " ", "t", "h", "e", " ", "b", "u", "d", "g", "e", "t", " ", "d", "e", "f", "i", "c", "i", "t", "?">>,
      <<"D", "e", "b", "t">>,
      <<"c", "a", "p", "i", "t", "a", "l">>,
      <<"t", "a", "x", "a", "t", "i", "o", "n">>,
      <<"r", "i", "s", "k">>,
      <<"p", "e", "n", "s", "i", "o", "n">>,
      <<"T", "e", "l", "l", " ", "m", "e", " ", "m", "o", "r", "e">>,
      <<"w", "h", "a", "t", " ", "a", "b", "o", "u", "t", " ", "i", "t">> }

\* A chatbot that has started on an empty ./chroma_db and indexed the document:
\* the state Construct, ProcessDocument, ReadCount and AddDocuments lead to.
InitDialogue ==
    /\ PureIdle
    /\ document = [exists |-> TRUE, chunks |-> MaxChunks]
    /\ store = IndexRecords(process_document(CurrentText, MaxChunks))
    /\ collection_exists = TRUE
    /\ received = [i \in ChunkIds |-> IF i \in Ids(store) THEN 1 ELSE 0]
    /\ pc = [s \in Sessions |-> IF s = 1 THEN "ready" ELSE "absent"]
    /\ is_initialized = [s \in Sessions |-> s = 1]
    /\ documents = [s \in Sessions |->
                       IF s = 1 THEN process_document(CurrentText, MaxChunks) ELSE <<>>]
    /\ init_count = [s \in Sessions |-> 0]
    /\ max_history = [s \in Sessions |-> DefaultMaxHistory]
    /\ conversation_history = [s \in Sessions |-> <<>>]
    /\ current_topic = [s \in Sessions |-> None]
    /\ recorded = [s \in Sessions |-> <<>>]
    /\ last = [op |-> "add_documents", session |-> 1, pre_store |-> {},
               outcome |-> [kind |-> "ok", at |-> 0]]
    /\ asks = 0

NextDialogue ==
    \/ \E q \in DialogueQuestions : Ask(1, q)
    \/ ResetSession(1)
    \/ SessionSummary(1)

SpecDialogue == InitDialogue /\ [][NextDialogue]_vars

\* ------------------------------------------------- pure-function specification
InitPure ==
    /\ arg_question \in Questions
    /\ arg_topic \in TopicsOrNone
    /\ result = NoCall
    /\ document = NoDocument
    /\ store = {}
    /\ collection_exists = FALSE
    /\ received = [i \in ChunkIds |-> 0]
    /\ SessionsAbsent

CallEnhance ==
    /\ result' = [fn |-> "enhance_question", value |-> enhance_question(arg_question, arg_topic)]
    /\ UNCHANGED <<arg_question, arg_topic, store_vars, session_vars, memory_vars, last, asks>>

CallIdentifyTopic ==
    /\ result' = [fn |-> "identify_topic", value |-> identify_topic(arg_question)]
    /\ UNCHANGED <<arg_question, arg_topic, store_vars, session_vars, memory_vars, last, asks>>

\* ------------------------------------------- VectorDatabase.search on its own
\* What the collection can hold when search is called: nothing, or the index of
\* the leading chunks of an edition of the document.
SearchStores ==
    {{}}
    \cup {IndexRecords(process_document(CurrentText, n)) : n \in 1..Len(CurrentText)}
    \cup {IndexRecords(process_document(PreviousText, m)) : m \in 1..Len(PreviousText)}

InitSearch ==
    /\ arg_question \in Questions
    /\ arg_topic = None
    /\ result = NoCall
    /\ document = NoDocument
    /\ store \in SearchStores
    /\ collection_exists = TRUE
    /\ received = [i \in ChunkIds |-> 0]
    /\ SessionsAbsent

\* vector_db.search(query, n_results) for a caller's n_results.
CallSearch ==
    /\ \E n_results \in 0..MaxResults :
          result' = [fn |-> "search", n_results |-> n_results,
                     distances |-> query_distances(store, arg_question, n_results),
                     value |-> search(store, arg_question, n_results)]
    /\ UNCHANGED <<arg_question, arg_topic, store_vars, session_vars, memory_vars, last, asks>>

NextSearch == CallSearch

SpecSearch == InitSearch /\ [][NextSearch]_vars

\* The result lists _generate_response is called with: none, or some.
GenerateResults == {<<>>, SampleResults}

CallGenerate ==
    /\ \E search_results \in GenerateResults :
          result' = [fn |-> "generate_response", results |-> search_results,
                     value |-> generate_response(arg_question, search_results)]
    /\ UNCHANGED <<arg_question, arg_topic, store_vars, session_vars, memory_vars, last, asks>>

NextPure == CallEnhance \/ CallIdentifyTopic \/ CallGenerate

SpecPure == InitPure /\ [][NextPure]_vars

\* ================================================================== claims
\* The newest interaction of a session's history.
Newest(s) == conversation_history[s][Len(conversation_history[s])]

\* C1: in Ready, ask never lets a failure reach its caller: when enhance,
\* search, generate or record raises, ask returns the apology that embeds the
\* error message; otherwise it returns the synthesized response (the one it
\* also recorded).
C1_AskNeverPropagates ==
    (last.op = "ask" /\ last.ready) =>
        /\ last.value.kind # "raised"
        /\ last.exc # NoException =>
              last.value = [kind |-> "apology", error |-> last.exc.msg]
        /\ last.exc = NoException =>
              /\ last.value.kind \in {"response", "not_found"}
              /\ last.value = Newest(last.session).response

C1_Witness ==
    /\ last.op = "ask"
    /\ last.ready
    /\ last.exc = [at |-> "search", msg |-> "storage unavailable"]
    /\ last.value = [kind |-> "apology", error |-> "storage unavailable"]

\* C2: after N+1 record() calls on an empty memory of capacity N,
\* history_length is N, the first recorded interaction is gone and the N later
\* ones remain in recording order.
C2_FifoEviction ==
    \A s \in Sessions :
        Len(recorded[s]) = max_history[s] + 1 =>
            /\ get_context(conversation_history[s], current_topic[s]).history_length = max_history[s]
            /\ conversation_history[s] = Tail(recorded[s])

C2_Witness ==
    /\ max_history[1] = DefaultMaxHistory
    /\ Len(recorded[1]) = DefaultMaxHistory + 1
    /\ Len(conversation_history[1]) = DefaultMaxHistory
    /\ recorded[1][1] # recorded[1][2]

InitSteps == {"process_document", "read_count", "add_documents"}

\* C3: a run of _initialize that begins on a populated index changes neither
\* document_count nor the stored vectors, and never calls add, however many
\* times initialization is run.
C3_InitIdempotentOnPopulatedIndex ==
    (last.op \in InitSteps /\ init_count[last.session] > 0) =>
        /\ last.op # "add_documents"
        /\ store = last.pre_store
        /\ Cardinality(store) = init_count[last.session]

C3_Witness ==
    /\ last.op = "read_count"
    /\ init_count[last.session] > 0
    /\ is_initialized[last.session]
    /\ \E i \in ChunkIds : received[i] = 1

\* C4: with several sessions initializing concurrently on one index, the
\* startup add is performed at most once: the index never receives a chunk of
\* the document twice.
C4_StartupAddAtMostOnce ==
    \A i \in ChunkIds : received[i] <= 1

\* C5: whenever a chatbot is Ready, the index holds exactly one vector for
\* every chunk of the document it processed (same id), whatever the store
\* held before initialization began.
C5_ReadyIndexHoldsEveryChunk ==
    \A s \in Sessions :
        is_initialized[s] =>
            \A i \in 1..Len(documents[s]) :
                Cardinality({r \in store : r.id = documents[s][i].id}) = 1

\* C6: ask outside Ready returns the fixed "not initialized" message, does
\* not fail, performs no search and leaves the conversation memory unchanged.
C6_AskOutsideReady ==
    (last.op = "ask" /\ ~last.ready) =>
        /\ last.value = NotInitializedMessage
        /\ ~last.searched
        /\ conversation_history[last.session] = last.pre_history
        /\ current_topic[last.session] = last.pre_topic

C6_Witness ==
    /\ last.op = "ask"
    /\ ~last.ready
    /\ pc[last.session] = "failed"
    /\ last.value = NotInitializedMessage

\* C7: for a question containing a vague-continuation phrase, with
\* current_topic set and not 'general' enhance returns a text containing the
\* original question and the topic's name; with no topic set it returns the
\* question unchanged.
C7_VagueContinuation ==
    (result.fn = "enhance_question" /\ AnyIn(vague_phrases, lower(arg_question))) =>
        /\ (arg_topic # None /\ arg_topic # general) =>
              /\ Contains(arg_question, result.value)
              /\ Contains(arg_topic, result.value)
              /\ result.value # arg_question
        /\ arg_topic = None => result.value = arg_question

C7_Witness ==
    /\ result.fn = "enhance_question"
    /\ arg_question = (<<"T", "e", "l", "l", " ", "m", "e", " ", "m", "o", "r", "e">>)
    /\ arg_topic = topic_keywords[2].topic
    /\ result.value = (<<"T", "e", "l", "l", " ", "m", "e", " ", "m", "o", "r", "e">>) \o about_clause \o topic_keywords[2].topic

\* C8: enhance applies at most one rule, in priority order: the topic-naming
\* clause alone when the vague-continuation rule applies; otherwise the
\* topic-referring clause alone when the question contains 'that', 'this' or
\* 'it' and a topic is set; otherwise the question itself.
C8_OneRuleInPriorityOrder ==
    result.fn = "enhance_question" =>
        LET vague == AnyIn(vague_phrases, lower(arg_question))
                        /\ arg_topic # None /\ arg_topic # general
            pronoun == AnyIn(pronoun_words, lower(arg_question)) /\ arg_topic # None
        IN  /\ vague => result.value = arg_question \o about_clause \o arg_topic
            /\ (~vague /\ pronoun) =>
                  result.value = arg_question \o referring_open \o arg_topic \o referring_close
            /\ (~vague /\ ~pronoun) => result.value = arg_question

C8_Witness ==
    /\ result.fn = "enhance_question"
    /\ arg_question = (<<"w", "h", "a", "t", " ", "a", "b", "o", "u", "t", " ", "i", "t">>)
    /\ arg_topic = topic_keywords[1].topic
    /\ result.value = (<<"w", "h", "a", "t", " ", "a", "b", "o", "u", "t", " ", "i", "t">>) \o about_clause \o topic_keywords[1].topic

\* The categories in the order the claim declares them.
ClaimedTopicOrder ==
    << <<"b", "u", "d", "g", "e", "t">>,
       <<"d", "e", "b", "t">>,
       <<"i", "n", "f", "r", "a", "s", "t", "r", "u", "c", "t", "u", "r", "e">>,
       <<"t", "a", "x", "a", "t", "i", "o", "n">>,
       <<"s", "u", "p", "e", "r", "a", "n", "n", "u", "a", "t", "i", "o", "n">>,
       <<"r", "i", "s", "k">> >>

\* How many keywords of a category occur in the lower-cased text.
KeywordCount(topic, text) ==
    LET entry == CHOOSE e \in {topic_keywords[i] : i \in 1..Len(topic_keywords)} : e.topic = topic
    IN  Cardinality({kw \in {entry.keywords[k] : k \in 1..Len(entry.keywords)} :
                        Contains(kw, lower(text))})

\* C9: classify_topic returns the category with the highest keyword count,
\* the first declared (budget, debt, infrastructure, taxation, superannuation,
\* risk) among those sharing it, and 'general' when no keyword occurs; so the
\* topic is a function of the text alone.
C9_ClassifyTopic ==
    result.fn = "identify_topic" =>
        LET n == Len(ClaimedTopicOrder)
            count(i) == KeywordCount(ClaimedTopicOrder[i], arg_question)
        IN  IF \A i \in 1..n : count(i) = 0
            THEN result.value = general
            ELSE \E i \in 1..n :
                    /\ result.value = ClaimedTopicOrder[i]
                    /\ \A j \in 1..n : count(j) <= count(i)
                    /\ \A j \in 1..(i - 1) : count(j) < count(i)

C9_Witness ==
    /\ result.fn = "identify_topic"
    /\ arg_question = (<<"p", "e", "n", "s", "i", "o", "n", " ", "r", "i", "s", "k">>)
    /\ result.value = topic_keywords[5].topic
    /\ KeywordCount(topic_keywords[5].topic, arg_question) = KeywordCount(topic_keywords[6].topic, arg_question)

\* The template families in the order the claim tests them.
ClaimedTemplateOrder ==
    << [template |-> "budget", terms |-> budget_terms],
       [template |-> "debt", terms |-> debt_terms],
       [template |-> "infrastructure", terms |-> infrastructure_terms],
       [template |-> "taxation", terms |-> taxation_terms],
       [template |-> "risk", terms |-> risk_terms],
       [template |-> "superannuation", terms |-> superannuation_terms] >>

\* C10: for non-empty results generate renders exactly one template, that of
\* the first family (budget, debt, infrastructure, taxation, risk,
\* superannuation) with a term in the question, and the general template when
\* no family matches.
C10_FirstMatchingTemplate ==
    (result.fn = "generate_response" /\ result.results # <<>>) =>
        LET matching == {i \in 1..Len(ClaimedTemplateOrder) :
                            AnyIn(ClaimedTemplateOrder[i].terms, lower(arg_question))}
        IN  /\ result.value.kind = "response"
            /\ result.value.template =
                  IF matching = {} THEN "general"
                  ELSE ClaimedTemplateOrder[CHOOSE i \in matching : \A j \in matching : i <= j].template
            /\ result.value.headline = headline(result.value.template)

C10_Witness ==
    /\ result.fn = "generate_response"
    /\ result.results # <<>>
    /\ arg_question = (<<"p", "e", "n", "s", "i", "o", "n", " ", "r", "i", "s", "k">>)
    /\ result.value.template = "risk"

BudgetDeficitQuestion ==
    <<"W", "h", "a", "t", " ", "a", "b", "o", "u", "t", " ", "t", "h", "e", " ", "b", "u", "d", "g", "e", "t", " ", "d", "e", "f", "i", "c", "i", "t", "?">>

\* C11: whatever the memory holds (no topic, or any topic left by an earlier
\* ask), a successful ask('What about the budget deficit?') that found results
\* returns the budget template, whose headline contains 'BUDGET', and records
\* the interaction under topic 'budget'.
C11_BudgetDeficitQuestion ==
    (/\ last.op = "ask"
     /\ last.ready
     /\ last.exc = NoException
     /\ last.question = BudgetDeficitQuestion
     /\ last.results # <<>>) =>
        /\ last.value.kind = "response"
        /\ last.value.template = "budget"
        /\ Contains(<<"B", "U", "D", "G", "E", "T">>, last.value.headline)
        /\ Newest(last.session).question = BudgetDeficitQuestion
        /\ Newest(last.session).topic = topic_keywords[1].topic
        /\ current_topic[last.session] = topic_keywords[1].topic

C11_Witness ==
    /\ last.op = "ask"
    /\ last.ready
    /\ last.exc = NoException
    /\ last.question = BudgetDeficitQuestion
    /\ last.results # <<>>
    /\ last.pre_topic = topic_keywords[2].topic
    /\ last.enhanced # last.question
    /\ last.value.template = "budget"

\* C12: when the search returned no results, generate returns the fixed
\* "couldn't find relevant information" message for every question, whatever
\* family its words belong to, and renders no template.
C12_NoResultsNoTemplate ==
    (result.fn = "generate_response" /\ result.results = <<>>) =>
        /\ result.value = NotFoundMessage
        /\ result.value.kind # "response"

C12_Witness ==
    /\ result.fn = "generate_response"
    /\ result.results = <<>>
    /\ select_template(arg_question) = "budget"
    /\ result.value = NotFoundMessage

C14_SummaryReportsQuestionsAsked ==
    (last.op = "get_conversation_summary"
        /\ max_history[last.session] = DefaultMaxHistory) =>
        LET history == conversation_history[last.session]
            n == Len(history)
        IN  /\ last.value = NoHistoryMessage <=> history = <<>>
            /\ history # <<>> =>
                  /\ last.value.total_questions = Len(recorded[last.session])
                  /\ lower(last.value.current_topic) = current_topic[last.session]
                  /\ last.value.recent_topics =
                        {history[i].topic : i \in {j \in 1..n : j > n - 3}}

\* C15: when the document is missing, or its chunking / extraction fails,
\* initialization is aborted with the failure raised to the caller: the
\* chatbot is not Ready and the index is as it was (add is not called). With
\* the document missing no chatbot ever becomes Ready and the index never
\* receives a record.
C15_FailedProcessingAborts ==
    /\ (last.op = "process_document" /\ last.raised) =>
          /\ pc[last.session] = "failed"
          /\ ~is_initialized[last.session]
          /\ store = last.pre_store
    /\ \A s \in Sessions : pc[s] = "failed" => ~is_initialized[s]
    /\ ~document.exists =>
          /\ \A s \in Sessions :
                ~is_initialized[s] /\ pc[s] \notin {"read_count", "add_documents", "ready"}
          /\ \A i \in ChunkIds : received[i] = 0
          /\ last.op # "add_documents"

C15_Witness ==
    /\ last.op = "process_document"
    /\ last.raised
    /\ document.exists
    /\ store = {}
    /\ pc[last.session] = "failed"

\* C16: context() returns current_topic ('general' when unset), the topics of
\* the last min(3, history_length) interactions in their order with
\* duplicates kept, and history_length, the number of stored interactions;
\* it changes no state.
C16_ContextIsReadOnly ==
    last.op = "get_context" =>
        LET history == conversation_history[last.session]
            n == Len(history)
            m == IF n < 3 THEN n ELSE 3
        IN  /\ last.value.current_topic =
                  IF current_topic[last.session] = None THEN general
                  ELSE current_topic[last.session]
            /\ Len(last.value.recent_topics) = m
            /\ \A i \in 1..m : last.value.recent_topics[i] = history[n - m + i].topic
            /\ last.value.history_length = n
            /\ history = last.pre_history
            /\ current_topic[last.session] = last.pre_topic
            /\ max_history[last.session] = last.pre_capacity
            /\ store = last.pre_store

C16_Witness ==
    /\ last.op = "get_context"
    /\ Len(conversation_history[1]) = 4
    /\ conversation_history[1][1].topic # conversation_history[1][4].topic
    /\ Len(last.value.recent_topics) = 3
    /\ last.value.recent_topics[1] = last.value.recent_topics[3]
    /\ last.value.recent_topics[1] # last.value.recent_topics[2]

\* C17: clear() leaves the history empty and current_topic unset, so that
\* enhance returns every question unchanged and the summary is the 'no
\* history' message until something is recorded; it changes nothing outside
\* the memory: capacity, index contents and the Ready flag are as before.
C17_ClearResetsMemoryOnly ==
    /\ last.op = "clear_history" =>
          /\ conversation_history[last.session] = <<>>
          /\ current_topic[last.session] = None
          /\ \A q \in DialogueQuestions :
                enhance_question(q, current_topic[last.session]) = q
          /\ get_conversation_summary(conversation_history[last.session],
                                      current_topic[last.session]) = NoHistoryMessage
          /\ max_history[last.session] = last.pre_capacity
          /\ is_initialized[last.session] = last.pre_ready
          /\ store = last.pre_store
    /\ (last.op = "ask" /\ last.ready /\ last.pre_history = <<>>) =>
          last.enhanced = last.question
    /\ (last.op = "get_conversation_summary" /\ last.pre_history = <<>>) =>
          last.value = NoHistoryMessage

C17_Witness ==
    /\ last.op = "clear_history"
    /\ last.pre_ready
    /\ Len(last.pre_history) = 2
    /\ last.pre_topic = topic_keywords[2].topic
    /\ current_topic[last.session] = None
    /\ store # {}

\* C18: add(chunks) is all-or-nothing: when the embedding of any chunk
\* fails, or the insert into the store fails, no record of the call is stored,
\* document_count is unchanged, and the failure reaches the caller
\* (initialization fails, the chatbot is not Ready).
C18_AddAllOrNothing ==
    (last.op = "add_documents" /\ last.outcome.kind # "ok") =>
        /\ store = last.pre_store
        /\ Cardinality(store) = Cardinality(last.pre_store)
        /\ pc[last.session] = "failed"
        /\ ~is_initialized[last.session]

C18_Witness ==
    /\ last.op = "add_documents"
    /\ last.outcome = [kind |-> "encode_error", at |-> 2]
    /\ last.pre_store = {}
    /\ store = {}
    /\ pc[last.session] = "failed"

\* C19: a successful ask(q) records the original question: afterwards the
\* newest interaction has question q (with the response returned) and
\* current_topic is the topic of q itself, also when enhancement appended a
\* topic clause to the question that was searched.
C19_RecordsOriginalQuestion ==
    (last.op = "ask" /\ last.ready /\ last.exc = NoException) =>
        /\ Newest(last.session).question = last.question
        /\ Newest(last.session).response = last.value
        /\ Newest(last.session).topic = identify_topic(last.question)
        /\ current_topic[last.session] = identify_topic(last.question)

C19_Witness ==
    /\ last.op = "ask"
    /\ last.ready
    /\ last.exc = NoException
    /\ last.enhanced # last.question
    /\ identify_topic(last.enhanced) # identify_topic(last.question)
    /\ Newest(last.session).question = last.question
    /\ current_topic[last.session] = general

\* The vague continuations among the questions of the dialogue.
VagueContinuations ==
    { <<"T", "e", "l", "l", " ", "m", "e", " ", "m", "o", "r", "e">>,
      <<"w", "h", "a", "t", " ", "a", "b", "o", "u", "t", " ", "i", "t">> }

\* The template that bears each topic's name.
TemplateOfTopic ==
    << [topic |-> topic_keywords[1].topic, template |-> "budget"],
       [topic |-> topic_keywords[2].topic, template |-> "debt"],
       [topic |-> topic_keywords[3].topic, template |-> "infrastructure"],
       [topic |-> topic_keywords[4].topic, template |-> "taxation"],
       [topic |-> topic_keywords[5].topic, template |-> "superannuation"],
       [topic |-> topic_keywords[6].topic, template |-> "risk"] >>

\* C20: enhancement runs before recording and uses the topic the previous
\* successful ask left: when that topic T is not 'general' and the question is
\* a vague continuation such as 'tell me more', a successful ask that found
\* results searches for the question with ' about T' appended and renders the
\* template of T.
C20_VagueContinuationUsesPreviousTopic ==
    (/\ last.op = "ask"
     /\ last.ready
     /\ last.exc = NoException
     /\ last.question \in VagueContinuations
     /\ last.pre_topic \notin {None, general}
     /\ last.results # <<>>) =>
        /\ last.pre_topic = last.pre_history[Len(last.pre_history)].topic
        /\ last.enhanced = last.question \o about_clause \o last.pre_topic
        /\ last.value.kind = "response"
        /\ \E i \in 1..Len(TemplateOfTopic) :
              /\ TemplateOfTopic[i].topic = last.pre_topic
              /\ TemplateOfTopic[i].template = last.value.template

C20_Witness ==
    /\ last.op = "ask"
    /\ last.ready
    /\ last.exc = NoException
    /\ last.question = <<"T", "e", "l", "l", " ", "m", "e", " ", "m", "o", "r", "e">>
    /\ last.pre_topic = topic_keywords[5].topic
    /\ last.results # <<>>
    /\ last.value.template = "superannuation"
    /\ current_topic[last.session] = general

\* C21: after any sequence of record and clear operations on a memory of
\* capacity N >= 1 the history is exactly the last min(n, N) of the n
\* interactions recorded since the most recent clear, in recording order; its
\* length never exceeds N.
C21_HistoryIsLastRecorded ==
    \A s \in Sessions :
        max_history[s] >= 1 =>
            LET n == Len(recorded[s])
                kept == IF n < max_history[s] THEN n ELSE max_history[s]
            IN  /\ Len(conversation_history[s]) <= max_history[s]
                /\ conversation_history[s] = SubSeq(recorded[s], n - kept + 1, n)

C21_Witness ==
    /\ max_history[1] = 2
    /\ Len(recorded[1]) = 4
    /\ last.op = "add_interaction"
    /\ Len(last.pre_history) = 2
    /\ conversation_history[1] = <<recorded[1][3], recorded[1][4]>>
    /\ recorded[1][2] # recorded[1][4]
    /\ recorded[1][3] # recorded[1][4]

\* C22: in every reachable state of a memory of capacity N >= 1,
\* current_topic is unset exactly when the history is empty, and otherwise it
\* is the topic stored in the newest interaction of the history.
C22_TopicFollowsNewest ==
    \A s \in Sessions :
        max_history[s] >= 1 =>
            /\ current_topic[s] = None <=> conversation_history[s] = <<>>
            /\ conversation_history[s] # <<>> => current_topic[s] = Newest(s).topic

C22_Witness ==
    /\ max_history[1] >= 1
    /\ last.op = "add_interaction"
    /\ last.pre_topic = topic_keywords[1].topic
    /\ Len(conversation_history[1]) = max_history[1]
    /\ Len(recorded[1]) > max_history[1]
    /\ current_topic[1] = general
    /\ Newest(1).topic = general

\* C23: an ask whose pipeline fails in enhance, search or generate returns
\* the apology and leaves the memory as it was: no interaction appended,
\* current_topic kept, the summary (and its question count) the same; a
\* successful ask appends exactly one interaction, the one it returns the
\* response of.
C23_FailedAskLeavesMemory ==
    (last.op = "ask" /\ last.ready) =>
        LET s == last.session
        IN  /\ last.exc.at \in {"enhance_question", "search", "generate_response"} =>
                  /\ last.value.kind = "apology"
                  /\ conversation_history[s] = last.pre_history
                  /\ current_topic[s] = last.pre_topic
                  /\ get_conversation_summary(conversation_history[s], current_topic[s])
                        = get_conversation_summary(last.pre_history, last.pre_topic)
            /\ last.exc = NoException =>
                  /\ conversation_history[s] # <<>>
                  /\ Newest(s).question = last.question
                  /\ LET appended == Append(last.pre_history, Newest(s))
                     IN  conversation_history[s] =
                            IF Len(appended) > max_history[s] THEN Tail(appended) ELSE appended

C23_Witness ==
    /\ last.op = "ask"
    /\ last.ready
    /\ last.exc.at = "search"
    /\ last.value.kind = "apology"
    /\ last.pre_topic = topic_keywords[2].topic
    /\ identify_topic(last.question) # last.pre_topic
    /\ conversation_history[last.session] = last.pre_history
    /\ Len(last.pre_history) = 1

\* C24: only initialization writes to the index: once the chatbot is Ready,
\* an ask, a get_conversation_summary or a clear of the memory leaves
\* document_count and the stored records as they were, and the chatbot is
\* still Ready afterwards.
C24_OnlyInitializationWrites ==
    (/\ last.op \in {"ask", "get_conversation_summary", "clear_history"}
     /\ IF last.op = "ask" THEN last.ready ELSE last.pre_ready) =>
        /\ store = last.pre_store
        /\ Cardinality(store) = Cardinality(last.pre_store)
        /\ is_initialized[last.session]
        /\ pc[last.session] = "ready"

C24_Witness ==
    /\ last.op = "ask"
    /\ last.ready
    /\ last.exc = NoException
    /\ asks = MaxAsks
    /\ init_count[1] = 0
    /\ \E i \in ChunkIds : received[i] = 1
    /\ store = last.pre_store
    /\ store # {}

\* Other memories with the same current_topic as one that holds history after
\* recording all_recorded: one that kept everything, one that kept one
\* interaction fewer, one that kept only the newest.
OtherHistories(history, all_recorded) ==
    {all_recorded}
    \cup (IF history = <<>> THEN {}
          ELSE {Tail(history), <<history[Len(history)]>>})

\* C25: the stored history influences an answer only through current_topic:
\* enhance returns, for every question, the string determined by the
\* question and current_topic alone, the same for memories that have the
\* same current_topic and hold more or fewer of the recorded interactions
\* (so the search query and the template chosen for it are the same);
\* enhance changes no memory state.
C25_EnhanceReadsOnlyTopic ==
    last.op = "enhance_question" =>
        LET s == last.session
        IN  /\ last.value = enhance_question(last.question, last.pre_topic)
            /\ \A other \in OtherHistories(last.pre_history, recorded[s]) :
                  memory_enhance_question(other, last.pre_topic, last.question) = last.value
            /\ conversation_history[s] = last.pre_history
            /\ current_topic[s] = last.pre_topic
            /\ max_history[s] = last.pre_capacity

C25_Witness ==
    /\ last.op = "enhance_question"
    /\ last.value # last.question
    /\ Len(last.pre_history) >= 2
    /\ Len(recorded[1]) > Len(last.pre_history)
    /\ last.pre_topic = topic_keywords[1].topic
    /\ last.pre_history[1].topic = general
    /\ recorded[1][1].topic = general

====
